---- MODULE Spec2Model ----
(***************************************************************************)
(* Model of the fraud-detection portal's API service (services/api.ts,     *)
(* kept in src/src/pages/Home.tsx lines 181-411): the request governor     *)
(* checkFraud with retryWithBackoff, the pure helpers getRiskLevel and     *)
(* generateExplanation, and the dashboard's calls getModelStats and        *)
(* getTransactionHistory with generateMockHistory.                         *)
(*                                                                         *)
(* Conventions.                                                            *)
(*  - Time is in milliseconds, as Date.now() and setTimeout count it.      *)
(*  - Probabilities and confidences are in hundredths (0.25 is 25).        *)
(*  - A JavaScript string is a sequence of tokens, so that includes() and  *)
(*    a suffix test are computed on the text and not assumed.              *)
(*  - An optional JSON field is <<>> when absent and <<v>> when present.   *)
(*  - JavaScript runs one synchronous block at a time: every action is the *)
(*    code between two awaits.                                             *)
(***************************************************************************)
EXTENDS Integers, Sequences, FiniteSets, TLC

VARIABLES
    clock,            \* Date.now()
    lastRequestTime,  \* module variable of api.ts
    pc,               \* per caller: where its checkFraud call stands
    transactionData,  \* per caller: the argument of checkFraud
    attempt,          \* per caller: the loop variable i of retryWithBackoff
    timerDue,         \* per caller: when its pending setTimeout is due
    requests,         \* per caller: fetch calls issued by the current call
    attempts,         \* per caller: the outcomes of the attempts so far
    delays,           \* per caller: the backoff delays computed so far
    waitTime,         \* per caller: the pre-dispatch wait (0: none)
    returned,         \* per caller: <<result>> once the call has returned
    raised,           \* per caller: <<message>> once the call has thrown
    prevRequestTime,  \* history: lastRequestTime before its last write
    dispatches,       \* history: writes of lastRequestTime (saturating at 2)
    requestStarts,    \* history: start times of the last two fetch calls
    probe,            \* the last evaluation of a pure helper
    readLast,         \* per caller: the lastRequestTime its call read
    statsCall,        \* where the getModelStats call stands, and its result
    historyCall,      \* where the getTransactionHistory call stands, and its result
    dashboard,        \* the state of the Dashboard page
    analyzer,         \* the state of the FraudAnalyzer component
    analyzerHist      \* history: what the FraudAnalyzer's calls returned

vars == <<clock, lastRequestTime, pc, transactionData, attempt, timerDue,
          requests, attempts, delays, waitTime, returned, raised,
          prevRequestTime, dispatches, requestStarts, probe, readLast,
          statsCall, historyCall, dashboard, analyzer, analyzerHist>>

callVars == <<pc, transactionData, attempt, timerDue, requests, attempts,
              delays, waitTime, returned, raised, readLast>>

histVars == <<prevRequestTime, dispatches, requestStarts>>

dashVars == <<statsCall, historyCall, dashboard>>

anVars == <<analyzer, analyzerHist>>

----------------------------------------------------------------------------
(* Program constants *)

MIN_REQUEST_INTERVAL == 2000

maxRetries == 3

baseDelay == 1000

RISK_LOW_BELOW == 25

RISK_MEDIUM_BELOW == 50

RISK_HIGH_BELOW == 80

FLAG_ABOVE == 50

MOCK_PROBABILITY_BELOW == 80

MOCK_CONFIDENCE == 85

EXPL_PROBABILITY_ABOVE == 70

EXPL_AMOUNT_ABOVE == 10000

EXPL_STEP_ABOVE == 500

----------------------------------------------------------------------------
(* Bounds of the model *)

\* Clock resolution: the clock advances by MIN_REQUEST_INTERVAL / TicksPerInterval.
TicksPerInterval == 4

\* How many clock steps a behaviour of the timing specification may take.
HorizonTicks == 26

\* How many (coarse) clock steps a behaviour of the outcome specification may take.
CoarseTicks == 3

\* Largest probability (in hundredths) the pure helpers are evaluated at.
MaxProbability == 101

\* How many clock steps a behaviour with two overlapping callers may take.
RaceTicks == 8

\* How many clock steps a behaviour of the scoring and dashboard calls together
\* may take.
FrameTicks == 4

\* How many clock steps pass before the last checkFraud call of a behaviour of
\* the termination specifications starts.
LiveTicks == 12

\* How many times the Analyze button is clicked in a behaviour of the analyzer
\* specification, and how many (coarse) clock steps the behaviour may take.
MaxAnalyses == 7

AnalyzerTicks == 8

\* The same for the export specification.
MaxExportAnalyses == 2

ExportTicks == 2

\* Longest transaction list the chart aggregates are evaluated on.
MaxChartLen == 14

\* Largest limit getTransactionHistory is called with, the dashboard's own aside.
MaxLimit == 2

\* The draws of generateMockHistory repeat with this period.
DrawPeriod == 3

TimeStep == MIN_REQUEST_INTERVAL \div TicksPerInterval

\* Date.now() counts from 1970: when the module loads it is far above
\* MIN_REQUEST_INTERVAL, so the first call never waits.
StartTime == 2 * MIN_REQUEST_INTERVAL

MaxTime == StartTime + HorizonTicks * TimeStep

MaxTimeRace == StartTime + RaceTicks * TimeStep

MaxTimeFrame == StartTime + FrameTicks * TimeStep

MaxTimeLive == StartTime + LiveTicks * TimeStep

CoarseStep == 2 * MIN_REQUEST_INTERVAL

MaxTimeCoarse == StartTime + CoarseTicks * CoarseStep

Callers == {1, 2}

SeqCallers == {1}

----------------------------------------------------------------------------
(* JavaScript values *)

Absent == <<>>

Some(v) == <<v>>

\* Truthiness of an optional field: undefined, 0, "" and false are falsy.
TruthyNum(x) == x # Absent /\ x[1] # 0

TruthyStr(x) == x # Absent /\ x[1] # <<>>

TruthyBool(x) == x # Absent /\ x[1]

\* String.prototype.includes on a tokenised string
Includes(str, needle) == \E k \in 1..Len(str) : str[k] = needle

Min(a, b) == IF a < b THEN a ELSE b

RECURSIVE Pow2(_)
Pow2(n) == IF n = 0 THEN 1 ELSE 2 * Pow2(n - 1)

----------------------------------------------------------------------------
(* Pure helpers of api.ts *)

\* Mutant: the band limits taken inclusively.
getRiskLevel_inclusive(probability) ==
    IF probability <= RISK_LOW_BELOW THEN "LOW"
    ELSE IF probability <= RISK_MEDIUM_BELOW THEN "MEDIUM"
    ELSE IF probability <= RISK_HIGH_BELOW THEN "HIGH"
    ELSE "CRITICAL"

\* getRiskLevel(probability)
getRiskLevel(probability) ==
    IF probability < RISK_LOW_BELOW THEN "LOW"
    ELSE IF probability < RISK_MEDIUM_BELOW THEN "MEDIUM"
    ELSE IF probability < RISK_HIGH_BELOW THEN "HIGH"
    ELSE "CRITICAL"

\* The explanation strings (their leading emoji left out).
EXPL_HIGH_PROBABILITY == "High fraud probability detected"

EXPL_LARGE_AMOUNT == "Large transaction amount increases risk"

EXPL_RISKY_TYPE == "Transaction type commonly associated with fraud"

EXPL_BALANCE_PATTERN == "Suspicious balance patterns detected"

EXPL_RISKY_TIME == "Transaction occurred during high-risk time period"

EXPL_NORMAL == "Transaction appears normal based on ML analysis"

RATE_LIMIT_WARNING == "API rate limit exceeded - showing simulated analysis"

\* explanations.push(marker) when cond holds
PushIf(explanations, cond, marker) ==
    IF cond THEN Append(explanations, marker) ELSE explanations

\* Mutant: the amount rule fires at the limit itself, and before the probability rule.
generateExplanation_amountFirst(data, probability) ==
    LET e1 == PushIf(<<>>, data.amount >= EXPL_AMOUNT_ABOVE, EXPL_LARGE_AMOUNT)
        e2 == PushIf(e1, probability > EXPL_PROBABILITY_ABOVE, EXPL_HIGH_PROBABILITY)
        e3 == PushIf(e2, data.type = "CASH_OUT" \/ data.type = "TRANSFER", EXPL_RISKY_TYPE)
        e4 == PushIf(e3, data.oldbalanceOrg = 0 /\ data.newbalanceOrig = 0, EXPL_BALANCE_PATTERN)
        e5 == PushIf(e4, data.step > EXPL_STEP_ABOVE, EXPL_RISKY_TIME)
    IN  PushIf(e5, Len(e5) = 0, EXPL_NORMAL)

\* generateExplanation(data, probability)
generateExplanation(data, probability) ==
    LET e1 == PushIf(<<>>, probability > EXPL_PROBABILITY_ABOVE, EXPL_HIGH_PROBABILITY)
        e2 == PushIf(e1, data.amount > EXPL_AMOUNT_ABOVE, EXPL_LARGE_AMOUNT)
        e3 == PushIf(e2, data.type = "CASH_OUT" \/ data.type = "TRANSFER", EXPL_RISKY_TYPE)
        e4 == PushIf(e3, data.oldbalanceOrg = 0 /\ data.newbalanceOrig = 0, EXPL_BALANCE_PATTERN)
        e5 == PushIf(e4, data.step > EXPL_STEP_ABOVE, EXPL_RISKY_TIME)
    IN  PushIf(e5, Len(e5) = 0, EXPL_NORMAL)

\* generateFeatureImportance(data): seven weights drawn with Math.random(); only
\* the keys are fixed, and nothing reads the weights.
generateFeatureImportance(data) ==
    {"amount", "type", "oldbalanceOrg", "newbalanceOrig", "oldbalanceDest",
     "newbalanceDest", "step"}

\* Array.prototype.slice(1)
Slice1(arr) == IF Len(arr) = 0 THEN <<>> ELSE Tail(arr)

----------------------------------------------------------------------------
(* The scoring request: what fetch and response.json() hand to the client *)

HTTP_TOO_MANY_REQUESTS == 429

\* Response.ok
ResponseOk(status) == status >= 200 /\ status <= 299

Threw(message) == [threw |-> TRUE, message |-> message, value |-> <<>>]

Resolved(value) == [threw |-> FALSE, message |-> <<>>, value |-> value]

\* The TypeError a browser's fetch rejects with on a transport failure.
FetchErrorMessage == <<"Failed to fetch">>

\* The SyntaxError of response.json(): the engine quotes the start of the body.
ParseErrorMessage(bodyText) ==
    <<"Unexpected token, ">> \o bodyText \o <<" is not valid JSON">>

\* The callback checkFraud hands to retryWithBackoff, applied to what the network
\* delivered: o.kind is "reject" (fetch threw) or "response".
fn(o) ==
    IF o.kind = "reject" THEN Threw(FetchErrorMessage)
    ELSE IF o.status = HTTP_TOO_MANY_REQUESTS
    THEN Threw(<<"429", " ", "Too Many Requests", " - Rate limit exceeded">>)
    ELSE IF ~ResponseOk(o.status)
    THEN Threw(<<"API request failed: ", ToString(o.status), " ">> \o o.statusText)
    ELSE IF ~o.parses THEN Threw(ParseErrorMessage(o.bodyText))
    ELSE Resolved(o.body)

\* Mutant: the test looks for a lower-case phrase the messages never hold.
isRateLimit_lowerCase(message) == Includes(message, "rate limit")

\* Mutant: the status code alone is looked for.
isRateLimit_only429(message) == Includes(message, "429")

\* error.message?.includes('429') || error.message?.includes('Too Many Requests')
isRateLimit(message) ==
    Includes(message, "429") \/ Includes(message, "Too Many Requests")

\* Mutant: the last attempt looked for one index too far.
IsLastAttempt_offByOne(i) == i = maxRetries

\* i === maxRetries - 1
IsLastAttempt(i) == i = maxRetries - 1

\* Mutant: a retry that does not count.
NextAttempt_stuck(i) == i

\* i++
NextAttempt(i) == i + 1

\* i < maxRetries
LoopContinues(i) == i < maxRetries

\* Mutant: linear instead of exponential backoff.
BackoffDelay_linear(i, message) ==
    IF isRateLimit(message) THEN baseDelay * (i + 1) ELSE baseDelay * i

\* const delay = isRateLimit ? baseDelay * 2^(i + 1) : baseDelay * 2^i
BackoffDelay(i, message) ==
    IF isRateLimit(message) THEN baseDelay * Pow2(i + 1) ELSE baseDelay * Pow2(i)

\* Mutant: the governor's test never asks for a wait.
MustWait_never(now, last) == FALSE

\* timeSinceLastRequest < MIN_REQUEST_INTERVAL
MustWait(now, last) == now - last < MIN_REQUEST_INTERVAL

\* Mutant: waits the elapsed time instead of the remaining time.
WaitTime_elapsed(now, last) == now - last

\* waitTime = MIN_REQUEST_INTERVAL - timeSinceLastRequest
WaitTime(now, last) == MIN_REQUEST_INTERVAL - (now - last)

----------------------------------------------------------------------------
(* The results of checkFraud *)

DEFAULT_MODEL_VERSION == <<"v2.1.0">>

MOCK_MODEL_VERSION == <<"v2.1.0", "-mock">>

\* Mutant: the snake-case field read first.
ResponseProbability_snakeFirst(result) ==
    IF TruthyNum(result.fraud_probability) THEN result.fraud_probability[1]
    ELSE IF TruthyNum(result.fraudProbability) THEN result.fraudProbability[1]
    ELSE 0

\* result.fraudProbability || result.fraud_probability || 0
ResponseProbability(result) ==
    IF TruthyNum(result.fraudProbability) THEN result.fraudProbability[1]
    ELSE IF TruthyNum(result.fraud_probability) THEN result.fraud_probability[1]
    ELSE 0

\* Mutant: the risk level derived from the camel-case field alone.
RealResult_riskFromCamel(data, result, rnd) ==
    [fraudProbability |-> ResponseProbability(result),
     flagged |-> (TruthyBool(result.flagged) \/ ResponseProbability(result) > FLAG_ABOVE),
     confidence |-> IF TruthyNum(result.confidence) THEN result.confidence[1]
                    ELSE rnd.confidence,
     riskLevel |-> getRiskLevel(IF TruthyNum(result.fraudProbability)
                                THEN result.fraudProbability[1] ELSE 0),
     explanation |-> generateExplanation(data, ResponseProbability(result)),
     featureImportance |-> generateFeatureImportance(data),
     modelVersion |-> IF TruthyStr(result.modelVersion) THEN result.modelVersion[1]
                      ELSE DEFAULT_MODEL_VERSION,
     processingTime |-> IF TruthyNum(result.processingTime) THEN result.processingTime[1]
                        ELSE rnd.processingTime]

\* The object checkFraud returns for a parsed response; rnd holds the values
\* Math.random() yields for the two placeholders.
RealResult(data, result, rnd) ==
    [fraudProbability |-> ResponseProbability(result),
     flagged |-> (TruthyBool(result.flagged) \/ ResponseProbability(result) > FLAG_ABOVE),
     confidence |-> IF TruthyNum(result.confidence) THEN result.confidence[1]
                    ELSE rnd.confidence,
     riskLevel |-> getRiskLevel(ResponseProbability(result)),
     explanation |-> generateExplanation(data, ResponseProbability(result)),
     featureImportance |-> generateFeatureImportance(data),
     modelVersion |-> IF TruthyStr(result.modelVersion) THEN result.modelVersion[1]
                      ELSE DEFAULT_MODEL_VERSION,
     processingTime |-> IF TruthyNum(result.processingTime) THEN result.processingTime[1]
                        ELSE rnd.processingTime]

\* The object checkFraud returns after rate-limit exhaustion.
MockResult(data, rnd) ==
    [fraudProbability |-> rnd.mockProbability,
     flagged |-> rnd.mockProbability > FLAG_ABOVE,
     confidence |-> MOCK_CONFIDENCE,
     riskLevel |-> getRiskLevel(rnd.mockProbability),
     explanation |-> <<RATE_LIMIT_WARNING>>
                     \o Slice1(generateExplanation(data, rnd.mockProbability)),
     featureImportance |-> generateFeatureImportance(data),
     modelVersion |-> MOCK_MODEL_VERSION,
     processingTime |-> rnd.mockProcessingTime]

\* analysisResult.modelVersion?.includes('mock'), the test the analyzer page
\* makes to tell a simulated result from a real one
HasMockMarker(version) == Includes(version, "-mock")

----------------------------------------------------------------------------
(* The FraudAnalyzer component (components/FraudAnalyzer.tsx)               *)

HISTORY_KEEP == 5

RATE_LIMIT_ALERT ==
    "API rate limit exceeded. Please wait a moment before trying again."

FAILURE_ALERT == "Analysis failed. Please try again."

INITIAL_FORM_DATA ==
    [step |-> 0, type |-> "TRANSFER", amount |-> 0, oldbalanceOrg |-> 0,
     newbalanceOrig |-> 0, oldbalanceDest |-> 0, newbalanceDest |-> 0]

Digits == <<"0", "1", "2", "3", "4", "5", "6", "7", "8", "9">>

\* The value of the leading run of digits of chars, after acc
RECURSIVE LeadingDigits(_, _)
LeadingDigits(chars, acc) ==
    IF chars = <<>> \/ ~Includes(Digits, chars[1]) THEN acc
    ELSE LeadingDigits(Tail(chars),
             10 * acc + (CHOOSE d \in 1..Len(Digits) : Digits[d] = chars[1]) - 1)

\* parseFloat on the text of a number input, one character per token: the
\* leading digits are read and the rest is dropped; NaN (Absent) when the text
\* does not start with a digit.
ParseFloat(chars) ==
    IF chars = <<>> \/ ~Includes(Digits, chars[1]) THEN Absent
    ELSE Some(LeadingDigits(chars, 0))

\* field === 'type' ? value : parseFloat(value) || 0
FieldValue(field, value) ==
    IF field = "type" THEN value
    ELSE IF TruthyNum(ParseFloat(value)) THEN ParseFloat(value)[1]
    ELSE 0

\* Mutant: the newest result is put last and the first five are kept.
NextHistory_append(prev, analysisResult) ==
    SubSeq(prev \o <<analysisResult>>, 1, Min(HISTORY_KEEP, Len(prev) + 1))

\* [analysisResult, ...prev].slice(0, 5)
NextHistory(prev, analysisResult) ==
    SubSeq(<<analysisResult>> \o prev, 1, Min(HISTORY_KEEP, Len(prev) + 1))

\* The test of handleAnalyze's catch block:
\* error.message?.includes('429') || error.message?.includes('Too Many Requests')
IsRateLimitError(message) ==
    Includes(message, "429") \/ Includes(message, "Too Many Requests")

\* Mutant: the Analyze button is never disabled.
ButtonDisabled_never(an) == FALSE

\* disabled={loading} on the Analyze button
ButtonDisabled(an) == an.loading

\* What handleAnalyze does once the checkFraud call of slot c has settled: the
\* code after the await, the catch block and the finally block. The state is
\* left alone when slot c holds a call the component did not make or the call
\* has not settled.
AnalyzerAfter(c, newPc, ret, rai) ==
    IF c \notin analyzer.calls THEN analyzer
    ELSE IF newPc = "returned"
    THEN [analyzer EXCEPT
             !.result = ret,
             !.analysisHistory = NextHistory(@, ret[1]),
             !.rateLimitWarning = IF HasMockMarker(ret[1].modelVersion) THEN TRUE ELSE @,
             !.loading = FALSE,
             !.calls = @ \ {c}]
    ELSE IF newPc = "raised"
    THEN [analyzer EXCEPT
             !.alert = IF IsRateLimitError(rai[1]) THEN Some(RATE_LIMIT_ALERT)
                       ELSE Some(FAILURE_ALERT),
             !.rateLimitWarning = IF IsRateLimitError(rai[1]) THEN TRUE ELSE @,
             !.loading = FALSE,
             !.calls = @ \ {c}]
    ELSE analyzer

\* The history the properties read: every result a call of the component
\* returned (newest first) and the input of the call that returned the last.
AnalyzerHistAfter(c, newPc, ret) ==
    IF c \in analyzer.calls /\ newPc = "returned"
    THEN [analyzerHist EXCEPT
             !.returnedLog = <<ret[1]>> \o @,
             !.resultInput = transactionData[c]]
    ELSE IF c \in analyzer.calls /\ newPc = "raised"
    THEN [analyzerHist EXCEPT !.raisedCount = @ + 1]
    ELSE analyzerHist

----------------------------------------------------------------------------
(* State machine of checkFraud *)

Settled == {"idle", "returned", "raised"}

\* lastRequestTime = Date.now(), with the history the properties read
RecordDispatch ==
    /\ lastRequestTime' = clock
    /\ prevRequestTime' = lastRequestTime
    /\ dispatches' = Min(dispatches + 1, 2)

\* fetch(`${BASE_URL}/api/transactions/score`, ...) is called by caller c
IssueFetch(c, issued) ==
    /\ requests' = [requests EXCEPT ![c] = issued + 1]
    /\ requestStarts' = IF Len(requestStarts) < 2 THEN Append(requestStarts, clock)
                        ELSE <<requestStarts[2], clock>>

\* checkFraud(data) runs for caller c to its first await: the governor's timer
\* when the previous dispatch is too recent, else the first fetch.
CheckFraudBegin(c, data) ==
    /\ pc[c] \in Settled
    /\ transactionData' = [transactionData EXCEPT ![c] = Some(data)]
    /\ attempt' = [attempt EXCEPT ![c] = 0]
    /\ attempts' = [attempts EXCEPT ![c] = <<>>]
    /\ delays' = [delays EXCEPT ![c] = <<>>]
    /\ returned' = [returned EXCEPT ![c] = Absent]
    /\ raised' = [raised EXCEPT ![c] = Absent]
    /\ readLast' = [readLast EXCEPT ![c] = lastRequestTime]
    /\ IF MustWait(clock, lastRequestTime)
       THEN /\ waitTime' = [waitTime EXCEPT ![c] = WaitTime(clock, lastRequestTime)]
            /\ timerDue' = [timerDue EXCEPT ![c] = clock + WaitTime(clock, lastRequestTime)]
            /\ pc' = [pc EXCEPT ![c] = "rateWait"]
            /\ requests' = [requests EXCEPT ![c] = 0]
            /\ UNCHANGED <<lastRequestTime, prevRequestTime, dispatches, requestStarts>>
       ELSE /\ waitTime' = [waitTime EXCEPT ![c] = 0]
            /\ timerDue' = [timerDue EXCEPT ![c] = 0]
            /\ RecordDispatch
            /\ IssueFetch(c, 0)
            /\ pc' = [pc EXCEPT ![c] = "fetching"]
    /\ UNCHANGED <<clock, probe, dashVars>>

\* checkFraud(data) is called by caller c from outside the FraudAnalyzer.
CheckFraudStart(c, data) ==
    /\ CheckFraudBegin(c, data)
    /\ UNCHANGED anVars

\* The governor's setTimeout fires (never before its delay has passed on the
\* clock Date.now() reads, which never runs backwards): the dispatch is recorded and
\* retryWithBackoff makes its first attempt.
GovernorResume(c) ==
    /\ pc[c] = "rateWait"
    /\ clock >= timerDue[c]
    /\ RecordDispatch
    /\ IssueFetch(c, requests[c])
    /\ timerDue' = [timerDue EXCEPT ![c] = 0]
    /\ pc' = [pc EXCEPT ![c] = "fetching"]
    /\ UNCHANGED <<clock, transactionData, attempt, attempts, delays, waitTime,
                   returned, raised, probe, readLast, dashVars, anVars>>

\* The pending attempt of caller c settles with what the network delivered (o);
\* rnd holds the values Math.random() yields if they are drawn.
AttemptSettles(c, o, rnd) ==
    /\ pc[c] = "fetching"
    /\ attempts' = [attempts EXCEPT ![c] = Append(@, o)]
    /\ IF ~fn(o).threw
       THEN \* return await fn(), then the result object is built
            /\ returned' = [returned EXCEPT ![c] =
                               Some(RealResult(transactionData[c][1], fn(o).value, rnd))]
            /\ pc' = [pc EXCEPT ![c] = "returned"]
            /\ UNCHANGED <<raised, delays, timerDue>>
       ELSE IF IsLastAttempt(attempt[c])
       THEN \* throw error, caught by checkFraud
            IF isRateLimit(fn(o).message)
            THEN /\ returned' = [returned EXCEPT ![c] =
                                    Some(MockResult(transactionData[c][1], rnd))]
                 /\ pc' = [pc EXCEPT ![c] = "returned"]
                 /\ UNCHANGED <<raised, delays, timerDue>>
            ELSE /\ raised' = [raised EXCEPT ![c] = Some(fn(o).message)]
                 /\ pc' = [pc EXCEPT ![c] = "raised"]
                 /\ UNCHANGED <<returned, delays, timerDue>>
       ELSE \* the backoff timer is set
            /\ delays' = [delays EXCEPT ![c] =
                             Append(@, BackoffDelay(attempt[c], fn(o).message))]
            /\ timerDue' = [timerDue EXCEPT ![c] =
                               clock + BackoffDelay(attempt[c], fn(o).message)]
            /\ pc' = [pc EXCEPT ![c] = "backoff"]
            /\ UNCHANGED <<returned, raised>>
    /\ analyzer' = AnalyzerAfter(c, pc'[c], returned'[c], raised'[c])
    /\ analyzerHist' = AnalyzerHistAfter(c, pc'[c], returned'[c])
    /\ UNCHANGED <<clock, lastRequestTime, transactionData, attempt, requests,
                   waitTime, prevRequestTime, dispatches, requestStarts, probe,
                   readLast, dashVars>>

\* The backoff timer fires (never early): i++, the loop test, the next attempt.
BackoffResume(c) ==
    /\ pc[c] = "backoff"
    /\ clock >= timerDue[c]
    /\ attempt' = [attempt EXCEPT ![c] = NextAttempt(@)]
    /\ timerDue' = [timerDue EXCEPT ![c] = 0]
    /\ IF LoopContinues(NextAttempt(attempt[c]))
       THEN /\ IssueFetch(c, requests[c])
            /\ pc' = [pc EXCEPT ![c] = "fetching"]
            /\ UNCHANGED raised
       ELSE \* throw new Error('Max retries exceeded'), caught by checkFraud
            /\ raised' = [raised EXCEPT ![c] = Some(<<"Max retries exceeded">>)]
            /\ pc' = [pc EXCEPT ![c] = "raised"]
            /\ UNCHANGED <<requests, requestStarts>>
    /\ analyzer' = AnalyzerAfter(c, pc'[c], returned[c], raised'[c])
    /\ analyzerHist' = AnalyzerHistAfter(c, pc'[c], returned[c])
    /\ UNCHANGED <<clock, lastRequestTime, transactionData, attempts, delays,
                   waitTime, returned, prevRequestTime, dispatches, probe,
                   readLast, dashVars>>

\* Time passes.
Tick(step, max) ==
    /\ clock + step <= max
    /\ clock' = clock + step
    /\ UNCHANGED <<lastRequestTime, callVars, histVars, probe, dashVars, anVars>>

\* Time passes beyond the horizon max for as long as some setTimeout is pending.
TimerTick(step, max) ==
    /\ clock + step > max
    /\ \E c \in Callers : pc[c] \in {"rateWait", "backoff"} /\ clock < timerDue[c]
    /\ clock' = clock + step
    /\ UNCHANGED <<lastRequestTime, callVars, histVars, probe, dashVars, anVars>>

----------------------------------------------------------------------------
(* The dashboard's data: getModelStats and getTransactionHistory.            *)
(* Ratios of the statistics record are in thousandths (0.905 is 905).       *)

MS_PER_DAY == 24 * 60 * 60 * 1000

\* Math.random() * 7 * 24 * 60 * 60 * 1000 stays below this
HISTORY_WINDOW == 7 * MS_PER_DAY

HISTORY_FLAG_ABOVE == 50

DASHBOARD_HISTORY_LIMIT == 10

\* Date.prototype.toISOString: the calendar date and the time of day, to the ms
ToISOString(t) == [date |-> t \div MS_PER_DAY, time |-> t % MS_PER_DAY]

\* new Date(isoString).getTime()
DateParse(iso) == iso.date * MS_PER_DAY + iso.time

\* The record getModelStats returns when the API is not available.
FallbackStats(now) ==
    [accuracy |-> 940, precision |-> 890, recall |-> 920, f1Score |-> 905,
     totalTransactions |-> 15847, fraudDetected |-> 1247, falsePositives |-> 89,
     lastUpdated |-> ToISOString(now)]

\* Mutant: return response.json() without await, so that a body that does not
\* parse rejects outside the try block.
getModelStats_noAwait(o, now) ==
    IF o.kind = "reject" THEN Resolved(FallbackStats(now))
    ELSE IF ~ResponseOk(o.status) THEN Resolved(FallbackStats(now))
    ELSE IF ~o.parses THEN Threw(ParseErrorMessage(o.bodyText))
    ELSE Resolved(o.body)

\* getModelStats(), from the moment its fetch settles with o: a rejected fetch
\* and a rejected response.json() are caught and logged, a response that is not
\* ok skips the return; all three reach the fallback record.
getModelStats(o, now) ==
    IF o.kind = "reject" THEN Resolved(FallbackStats(now))
    ELSE IF ~ResponseOk(o.status) THEN Resolved(FallbackStats(now))
    ELSE IF ~o.parses THEN Resolved(FallbackStats(now))
    ELSE Resolved(o.body)

HISTORY_TYPES == <<"TRANSFER", "CASH_OUT", "PAYMENT", "CASH_IN", "DEBIT">>

\* The record pushed by iteration i of generateMockHistory; rnd holds what the
\* four Math.random() calls of the iteration yield.
MockTransaction(i, now, rnd) ==
    [id |-> <<"tx_", ToString(now), "_", ToString(i)>>,
     timestamp |-> ToISOString(now - rnd.age),
     amount |-> rnd.amount,
     type |-> HISTORY_TYPES[rnd.typeIndex + 1],
     fraudProbability |-> rnd.fraudProb,
     flagged |-> rnd.fraudProb > HISTORY_FLAG_ABOVE,
     riskLevel |-> getRiskLevel(rnd.fraudProb)]

\* for (let i = 0; i < limit; i++) history.push(...)
RECURSIVE MockHistoryLoop(_, _, _, _, _)
MockHistoryLoop(i, limit, now, rnds, history) ==
    IF i < limit
    THEN MockHistoryLoop(i + 1, limit, now, rnds,
                         Append(history, MockTransaction(i, now, rnds[i + 1])))
    ELSE history

\* Mutant: the comparator's operands swapped (oldest first).
CompareTimestamps_ascending(a, b) ==
    DateParse(a.timestamp) - DateParse(b.timestamp)

\* (a, b) => new Date(b.timestamp).getTime() - new Date(a.timestamp).getTime()
CompareTimestamps(a, b) ==
    DateParse(b.timestamp) - DateParse(a.timestamp)

\* Array.prototype.sort with that comparator: x is placed after every entry the
\* comparator does not order behind it (the sort is stable).
RECURSIVE InsertSorted(_, _)
InsertSorted(sorted, x) ==
    IF Len(sorted) = 0 THEN <<x>>
    ELSE LET last == sorted[Len(sorted)]
         IN  IF CompareTimestamps(last, x) <= 0 THEN Append(sorted, x)
             ELSE Append(InsertSorted(SubSeq(sorted, 1, Len(sorted) - 1), x), last)

RECURSIVE SortHistory(_)
SortHistory(arr) ==
    IF Len(arr) = 0 THEN <<>>
    ELSE InsertSorted(SortHistory(SubSeq(arr, 1, Len(arr) - 1)), arr[Len(arr)])

\* generateMockHistory(limit); rnds[i + 1] holds the draws of iteration i
generateMockHistory(limit, now, rnds) ==
    SortHistory(MockHistoryLoop(0, limit, now, rnds, <<>>))

\* getTransactionHistory(limit), from the moment its fetch settles with o
getTransactionHistory(limit, o, now, rnds) ==
    IF o.kind = "reject" THEN Resolved(generateMockHistory(limit, now, rnds))
    ELSE IF ~ResponseOk(o.status) THEN Resolved(generateMockHistory(limit, now, rnds))
    ELSE IF ~o.parses THEN Resolved(generateMockHistory(limit, now, rnds))
    ELSE Resolved(o.body)

\* A call of getModelStats or getTransactionHistory that is not under way.
NoCall ==
    [pc |-> "idle", limit |-> 0, requests |-> 0, outcome |-> Absent,
     returned |-> Absent, raised |-> Absent]

\* The call has run to its await of fetch: one request is out.
CallFetching(limit) ==
    [pc |-> "fetching", limit |-> limit, requests |-> 1, outcome |-> Absent,
     returned |-> Absent, raised |-> Absent]

\* The call has settled with result r after the network delivered o.
CallSettled(call, o, r) ==
    [call EXCEPT !.pc = IF r.threw THEN "raised" ELSE "returned",
                 !.outcome = Some(o),
                 !.returned = IF r.threw THEN Absent ELSE Some(r.value),
                 !.raised = IF r.threw THEN Some(r.message) ELSE Absent]

\* Dashboard's fetchData after its await: Promise.all settles as soon as both
\* calls have (or one has raised); then the two setters run, or the catch, and
\* setLoading(false) in either case.
DashboardAfter(stats, history) ==
    IF ~dashboard.awaiting THEN dashboard
    ELSE IF stats.pc = "raised" \/ history.pc = "raised"
    THEN [dashboard EXCEPT !.awaiting = FALSE, !.loading = FALSE]
    ELSE IF stats.pc = "returned" /\ history.pc = "returned"
    THEN [awaiting |-> FALSE, loading |-> FALSE, stats |-> stats.returned,
          recentTransactions |-> history.returned[1]]
    ELSE dashboard

\* Mutant: the statistics request routed through the governor's timestamp.
GetModelStatsStart_governed ==
    /\ statsCall.pc \in Settled
    /\ statsCall' = CallFetching(0)
    /\ lastRequestTime' = clock
    /\ UNCHANGED <<clock, callVars, histVars, probe, historyCall, dashboard, anVars>>

\* getModelStats() is called and runs to its await of fetch.
GetModelStatsStart ==
    /\ statsCall.pc \in Settled
    /\ statsCall' = CallFetching(0)
    /\ UNCHANGED <<clock, lastRequestTime, callVars, histVars, probe, historyCall,
                   dashboard, anVars>>

\* getTransactionHistory(limit) is called and runs to its await of fetch.
GetTransactionHistoryStart(limit) ==
    /\ historyCall.pc \in Settled
    /\ historyCall' = CallFetching(limit)
    /\ UNCHANGED <<clock, lastRequestTime, callVars, histVars, probe, statsCall,
                   dashboard, anVars>>

\* The Dashboard page mounts: fetchData starts both calls and awaits them.
DashboardFetchData ==
    /\ ~dashboard.awaiting
    /\ statsCall.pc \in Settled
    /\ historyCall.pc \in Settled
    /\ statsCall' = CallFetching(0)
    /\ historyCall' = CallFetching(DASHBOARD_HISTORY_LIMIT)
    /\ dashboard' = [dashboard EXCEPT !.awaiting = TRUE]
    /\ UNCHANGED <<clock, lastRequestTime, callVars, histVars, probe, anVars>>

\* The fetch of getModelStats settles with o.
StatsSettles(o) ==
    /\ statsCall.pc = "fetching"
    /\ statsCall' = CallSettled(statsCall, o, getModelStats(o, clock))
    /\ dashboard' = DashboardAfter(statsCall', historyCall)
    /\ UNCHANGED <<clock, lastRequestTime, callVars, histVars, probe, historyCall,
                   anVars>>

\* The fetch of getTransactionHistory settles with o.
HistorySettles(o, rnds) ==
    /\ historyCall.pc = "fetching"
    /\ historyCall' = CallSettled(historyCall, o,
                          getTransactionHistory(historyCall.limit, o, clock, rnds))
    /\ dashboard' = DashboardAfter(statsCall, historyCall')
    /\ UNCHANGED <<clock, lastRequestTime, callVars, histVars, probe, statsCall,
                   anVars>>

----------------------------------------------------------------------------
(* The chart aggregates of the AdvancedCharts page. A quotient (avgRisk,     *)
(* fraudRate) is kept as the pair of its numerator and denominator, and an  *)
(* object's values are kept in the order Object.values lists them: the      *)
(* order in which the keys were added.                                      *)

DAILY_KEEP == 7

Ratio(num, den) == [num |-> num, den |-> den]

\* new Date(tx.timestamp).toLocaleDateString(), for a browser on UTC: the
\* calendar date of the timestamp
LocaleDate(tx) == DateParse(tx.timestamp) \div MS_PER_DAY

\* The place of the entry of stats whose field holds key, 0 when there is none.
EntryOf(stats, field, key) ==
    IF \E k \in 1..Len(stats) : stats[k][field] = key
    THEN CHOOSE k \in 1..Len(stats) : stats[k][field] = key
    ELSE 0

\* One iteration of processDailyTrends' forEach
DailyStatsAdd(dailyStats, tx) ==
    LET withDate == IF EntryOf(dailyStats, "date", LocaleDate(tx)) = 0
                    THEN Append(dailyStats,
                                [date |-> LocaleDate(tx), total |-> 0, fraud |-> 0,
                                 legitimate |-> 0, avgRisk |-> 0, totalAmount |-> 0])
                    ELSE dailyStats
        k == EntryOf(withDate, "date", LocaleDate(tx))
    IN  [withDate EXCEPT
            ![k].total = @ + 1,
            ![k].totalAmount = @ + tx.amount,
            ![k].fraud = IF tx.flagged THEN @ + 1 ELSE @,
            ![k].legitimate = IF tx.flagged THEN @ ELSE @ + 1,
            ![k].avgRisk = @ + tx.fraudProbability]

RECURSIVE DailyStatsLoop(_, _)
DailyStatsLoop(transactions, dailyStats) ==
    IF transactions = <<>> THEN dailyStats
    ELSE DailyStatsLoop(Tail(transactions), DailyStatsAdd(dailyStats, Head(transactions)))

\* Array.prototype.slice(-n)
SliceLast(arr, n) ==
    IF Len(arr) <= n THEN arr ELSE SubSeq(arr, Len(arr) - n + 1, Len(arr))

\* processDailyTrends(transactions)
processDailyTrends(transactions) ==
    LET dailyStats == DailyStatsLoop(transactions, <<>>)
        days == [k \in 1..Len(dailyStats) |->
                    [date |-> dailyStats[k].date,
                     total |-> dailyStats[k].total,
                     fraud |-> dailyStats[k].fraud,
                     legitimate |-> dailyStats[k].legitimate,
                     totalAmount |-> dailyStats[k].totalAmount,
                     avgRisk |-> Ratio(dailyStats[k].avgRisk, dailyStats[k].total),
                     fraudRate |-> Ratio(dailyStats[k].fraud * 100, dailyStats[k].total)]]
    IN  SliceLast(days, DAILY_KEEP)

\* One iteration of processTransactionTypes' forEach
TypeStatsAdd(typeStats, tx) ==
    LET withType == IF EntryOf(typeStats, "name", tx.type) = 0
                    THEN Append(typeStats,
                                [name |-> tx.type, total |-> 0, fraud |-> 0, value |-> 0])
                    ELSE typeStats
        k == EntryOf(withType, "name", tx.type)
    IN  [withType EXCEPT
            ![k].total = @ + 1,
            ![k].value = @ + tx.amount,
            ![k].fraud = IF tx.flagged THEN @ + 1 ELSE @]

RECURSIVE TypeStatsLoop(_, _)
TypeStatsLoop(transactions, typeStats) ==
    IF transactions = <<>> THEN typeStats
    ELSE TypeStatsLoop(Tail(transactions), TypeStatsAdd(typeStats, Head(transactions)))

\* processTransactionTypes(transactions)
processTransactionTypes(transactions) ==
    LET typeStats == TypeStatsLoop(transactions, <<>>)
    IN  [k \in 1..Len(typeStats) |->
            [name |-> typeStats[k].name,
             total |-> typeStats[k].total,
             fraud |-> typeStats[k].fraud,
             value |-> typeStats[k].value,
             fraudRate |-> Ratio(typeStats[k].fraud * 100, typeStats[k].total)]]

RISK_LEVELS == <<"LOW", "MEDIUM", "HIGH", "CRITICAL">>

\* riskStats[tx.riskLevel].value += 1, transaction after transaction
RECURSIVE RiskStatsLoop(_, _)
RiskStatsLoop(transactions, riskStats) ==
    IF transactions = <<>> THEN riskStats
    ELSE RiskStatsLoop(Tail(transactions),
                       [riskStats EXCEPT ![Head(transactions).riskLevel].value = @ + 1])

\* processRiskLevels(transactions)
processRiskLevels(transactions) ==
    LET initial == [level \in {RISK_LEVELS[k] : k \in 1..Len(RISK_LEVELS)} |->
                       [name |-> <<"Low Risk", "Medium Risk", "High Risk", "Critical Risk">>[
                                    CHOOSE k \in 1..Len(RISK_LEVELS) : RISK_LEVELS[k] = level],
                        value |-> 0]]
        riskStats == RiskStatsLoop(transactions, initial)
    IN  [k \in 1..Len(RISK_LEVELS) |-> riskStats[RISK_LEVELS[k]]]

\* The ranges of processAmountDistribution; max is absent where it is Infinity.
AMOUNT_RANGES ==
    <<[name |-> "$0-1K", min |-> 0, max |-> Some(1000), count |-> 0, fraud |-> 0],
      [name |-> "$1K-5K", min |-> 1000, max |-> Some(5000), count |-> 0, fraud |-> 0],
      [name |-> "$5K-10K", min |-> 5000, max |-> Some(10000), count |-> 0, fraud |-> 0],
      [name |-> "$10K-25K", min |-> 10000, max |-> Some(25000), count |-> 0, fraud |-> 0],
      [name |-> "$25K+", min |-> 25000, max |-> Absent, count |-> 0, fraud |-> 0]>>

\* Mutant: the lower end of a range left out of it.
InRange_exclusive(r, amount) ==
    amount > r.min /\ (r.max = Absent \/ amount < r.max[1])

\* tx.amount >= r.min && tx.amount < r.max
InRange(r, amount) ==
    amount >= r.min /\ (r.max = Absent \/ amount < r.max[1])

\* ranges.find(...): the place of the first range that holds amount, 0 for
\* undefined
FindRange(ranges, amount) ==
    IF \E k \in 1..Len(ranges) : InRange(ranges[k], amount)
    THEN CHOOSE k \in 1..Len(ranges) :
            /\ InRange(ranges[k], amount)
            /\ \A j \in 1..(k - 1) : ~InRange(ranges[j], amount)
    ELSE 0

RECURSIVE AmountRangesLoop(_, _)
AmountRangesLoop(transactions, ranges) ==
    IF transactions = <<>> THEN ranges
    ELSE LET tx == Head(transactions)
             k == FindRange(ranges, tx.amount)
         IN  AmountRangesLoop(Tail(transactions),
                 IF k = 0 THEN ranges
                 ELSE [ranges EXCEPT ![k].count = @ + 1,
                                     ![k].fraud = IF tx.flagged THEN @ + 1 ELSE @])

\* processAmountDistribution(transactions)
processAmountDistribution(transactions) ==
    LET ranges == AmountRangesLoop(transactions, AMOUNT_RANGES)
    IN  [k \in 1..Len(ranges) |->
            [name |-> ranges[k].name, min |-> ranges[k].min, max |-> ranges[k].max,
             count |-> ranges[k].count, fraud |-> ranges[k].fraud,
             fraudRate |-> IF ranges[k].count > 0
                           THEN Ratio(ranges[k].fraud * 100, ranges[k].count)
                           ELSE Ratio(0, 1)]]

----------------------------------------------------------------------------
(* State machine of the FraudAnalyzer component *)

\* An input of the form changes: setFormData with the parsed value.
HandleInputChange(field, value) ==
    /\ analyzer' = [analyzer EXCEPT
                       !.formData = [@ EXCEPT ![field] = FieldValue(field, value)]]
    /\ UNCHANGED <<clock, lastRequestTime, callVars, histVars, probe, dashVars,
                   analyzerHist>>

\* The Analyze button is clicked: handleAnalyze runs to its await of
\* checkFraud(formData), the call taking the first slot with no call in flight.
HandleAnalyze ==
    /\ ~ButtonDisabled(analyzer)
    /\ \E c \in Callers :
          /\ pc[c] \in Settled
          /\ \A d \in Callers : d < c => pc[d] \notin Settled
          /\ CheckFraudBegin(c, analyzer.formData)
          /\ analyzer' = [analyzer EXCEPT !.loading = TRUE,
                                          !.rateLimitWarning = FALSE,
                                          !.calls = @ \cup {c}]
    /\ analyzerHist' = [analyzerHist EXCEPT !.analyses = @ + 1]

\* The Export button is clicked: exportResults downloads the record, or returns
\* at once when there is no result.
ExportResults ==
    /\ IF analyzer.result = Absent
       THEN UNCHANGED anVars
       ELSE /\ analyzer' = [analyzer EXCEPT !.download =
                               Some([name |-> clock,
                                     exportData |->
                                        [timestamp |-> ToISOString(clock),
                                         transaction |-> analyzer.formData,
                                         analysis |-> analyzer.result[1]]])]
            /\ analyzerHist' = [analyzerHist EXCEPT
                                   !.exportedInput = analyzerHist.resultInput]
    /\ UNCHANGED <<clock, lastRequestTime, callVars, histVars, probe, dashVars>>

----------------------------------------------------------------------------
(* Inputs *)

Tx(step, type, amount, oldOrg, newOrig) ==
    [step |-> step, type |-> type, amount |-> amount, oldbalanceOrg |-> oldOrg,
     newbalanceOrig |-> newOrig, oldbalanceDest |-> 0, newbalanceDest |-> amount]

Body(camel, snake, flagged, confidence, version, time) ==
    [fraudProbability |-> camel, fraud_probability |-> snake, flagged |-> flagged,
     confidence |-> confidence, modelVersion |-> version, processingTime |-> time]

EmptyBody == Body(Absent, Absent, Absent, Absent, Absent, Absent)

Reject ==
    [kind |-> "reject", status |-> 0, statusText |-> <<>>, parses |-> FALSE,
     bodyText |-> <<>>, body |-> EmptyBody]

Response(status, statusText) ==
    [kind |-> "response", status |-> status, statusText |-> statusText,
     parses |-> FALSE, bodyText |-> <<>>, body |-> EmptyBody]

Unparsable(bodyText) ==
    [kind |-> "response", status |-> 200, statusText |-> <<"OK">>, parses |-> FALSE,
     bodyText |-> bodyText, body |-> EmptyBody]

Success(body) ==
    [kind |-> "response", status |-> 200, statusText |-> <<"OK">>, parses |-> TRUE,
     bodyText |-> <<>>, body |-> body]

Draw(confidence, time, mockProbability, mockTime) ==
    [confidence |-> confidence, processingTime |-> time,
     mockProbability |-> mockProbability, mockProcessingTime |-> mockTime]

\* Inputs of the timing specification: one transaction, one of each outcome class.
TimingTx == {Tx(1, "PAYMENT", 100, 100, 0)}

TimingOutcomes ==
    {Response(HTTP_TOO_MANY_REQUESTS, <<"Too Many Requests">>),
     Response(500, <<"Internal Server Error">>),
     Success(Body(Some(30), Absent, Absent, Some(95), Some(<<"v3.0.0">>), Some(120)))}

TimingDraws == {Draw(70, 50, 10, 25)}

\* Inputs of the outcome specification.
OutcomeTx ==
    {Tx(1, "PAYMENT", 100, 100, 0),
     Tx(501, "TRANSFER", 10001, 0, 0),
     Tx(500, "CASH_OUT", 10000, 0, 0)}

FailureOutcomes ==
    {Reject,
     Response(HTTP_TOO_MANY_REQUESTS, <<"Too Many Requests">>),
     Response(500, <<"Internal Server Error">>),
     Response(500, <<"Too Many Requests">>),
     Unparsable(<<"<html>">>)}

\* Bodies of a success response: JSON objects, as the endpoint's contract has it.
SuccessBodies ==
    {Body(Some(90), Absent, Absent, Some(95), Some(<<"v3.0.0">>), Some(120)),
     Body(Absent, Some(60), Some(FALSE), Absent, Absent, Absent),
     Body(Some(0), Some(71), Some(TRUE), Absent, Absent, Absent),
     Body(Some(30), Absent, Some(TRUE), Absent, Some(<<"v3.0.0", "-mock">>), Absent),
     Body(Some(90), Some(10), Some(FALSE), Some(0), Some(<<>>), Some(0)),
     EmptyBody}

OutcomeOutcomes == FailureOutcomes \cup {Success(b) : b \in SuccessBodies}

\* Math.random() * 0.3 + 0.7 is in [0.70, 1.00), Math.random() * 200 + 50 in
\* [50, 250), Math.random() * 0.8 in [0, 0.80), Math.random() * 100 + 25 in [25, 125).
OutcomeDraws ==
    {Draw(cf, 50, mp, 25) : cf \in {70, 99}, mp \in {0, 25, 51, 71, MOCK_PROBABILITY_BELOW - 1}}

\* Inputs of the statistics and history calls.
StatsBody ==
    [accuracy |-> 971, precision |-> 900, recall |-> 950, f1Score |-> 924,
     totalTransactions |-> 20000, fraudDetected |-> 1500, falsePositives |-> 40,
     lastUpdated |-> ToISOString(StartTime)]

StatsOutcomes ==
    {Reject,
     Response(500, <<"Internal Server Error">>),
     Unparsable(<<"<html>">>),
     Success(StatsBody)}

HistoryDraw(fraudProb, age, amount, typeIndex) ==
    [fraudProb |-> fraudProb, age |-> age, amount |-> amount, typeIndex |-> typeIndex]

\* Math.random() is in [0, 1): a probability below 1.00, an age below the
\* window, an amount in [100, 50100), an index in 0..4.
HistoryDraws ==
    {HistoryDraw(51, 0, 100, 0),
     HistoryDraw(50, 1000, 50099, 4),
     HistoryDraw(10, HISTORY_WINDOW - 1, 2500, 1)}

\* The draws of the iterations of one generateMockHistory(limit) run.
DrawSequences(limit) ==
    {[i \in 1..limit |-> base[((i - 1) % DrawPeriod) + 1]] :
        base \in [1..DrawPeriod -> HistoryDraws]}

HistoryLimits == (0..MaxLimit) \cup {DASHBOARD_HISTORY_LIMIT}

\* A history the upstream sends: two records, the older one first.
UpstreamHistory ==
    <<MockTransaction(0, StartTime, HistoryDraw(80, 5000, 300, 1)),
      MockTransaction(1, StartTime, HistoryDraw(20, 0, 200, 2))>>

HistoryOutcomes ==
    {Reject,
     Response(404, <<"Not Found">>),
     Unparsable(<<"<html>">>),
     Success(UpstreamHistory)}

\* Inputs of the specifications that interleave calls: one success and one
\* failure of each request.
RaceOutcomes ==
    {Response(500, <<"Internal Server Error">>),
     Success(Body(Some(30), Absent, Absent, Some(95), Some(<<"v3.0.0">>), Some(120)))}

FrameStatsOutcomes == {Reject, Success(StatsBody)}

FrameHistoryOutcomes == {Reject, Success(UpstreamHistory)}

FrameLimits == {1}

FrameDrawSequences(limit) == {[i \in 1..limit |-> HistoryDraw(51, 0, 100, 0)]}

\* Inputs of the FraudAnalyzer specifications.
AnalyzerOutcomes ==
    {Response(HTTP_TOO_MANY_REQUESTS, <<"Too Many Requests">>),
     Response(500, <<"Internal Server Error">>),
     Response(500, <<"Too Many Requests">>),
     Success(Body(Some(30), Absent, Absent, Some(95), Some(<<"v3.0.0">>), Some(120)))}

\* The options of the type select.
TypeEdits == {"TRANSFER", "CASH_OUT"}

NumberFields == {"amount"}

\* What a number input hands over: the text of a number, or "" while the
\* field is empty or holds no valid number.
NumberEdits == {<<"1", "0", "0", "0", "1">>, <<>>}

\* Inputs of the chart aggregates. The page loads at six in the morning of a
\* day, so that the seven-day window of generateMockHistory reaches into eight
\* calendar dates.
ChartNow == 10 * MS_PER_DAY + MS_PER_DAY \div 4

ChartProbabilities == <<10, 30, 51, 90, 50>>

ChartAmounts == <<100, 999, 1000, 4999, 5000, 9999, 10000, 25000, 50099>>

\* The draws of iteration i of generateMockHistory: ages in half days (14 to
\* the window), below the window.
ChartDraw(i, stride, pattern) ==
    HistoryDraw(ChartProbabilities[((i + pattern) % Len(ChartProbabilities)) + 1],
                ((i * stride) % 14) * (HISTORY_WINDOW \div 14),
                ChartAmounts[((i + 2 * pattern) % Len(ChartAmounts)) + 1],
                (i + pattern) % Len(HISTORY_TYPES))

\* What getTransactionHistory delivers when it falls back on mock records.
MockHistories ==
    {generateMockHistory(n, ChartNow, [i \in 1..n |-> ChartDraw(i - 1, stride, pattern)]) :
        n \in 0..MaxChartLen, stride \in {1, 3, 5}, pattern \in 0..2}

\* What it delivers from an upstream that sends the older records first and
\* amounts of 0.
UpstreamHistories ==
    {[k \in 1..Len(h) |->
         [h[Len(h) - k + 1] EXCEPT !.amount = IF k = Len(h) THEN 0 ELSE @]] :
        h \in {generateMockHistory(n, ChartNow,
                                   [i \in 1..n |-> ChartDraw(i - 1, 1, pattern)]) :
                 n \in 1..MaxChartLen, pattern \in 0..2}}

----------------------------------------------------------------------------
(* Specifications *)

NoProbe == [fn |-> "idle", data |-> Absent, probability |-> 0, out |-> <<>>]

\* The module as loaded: no call made yet.
GovernorInit ==
    /\ clock = StartTime
    /\ lastRequestTime = 0
    /\ pc = [c \in Callers |-> "idle"]
    /\ transactionData = [c \in Callers |-> Absent]
    /\ attempt = [c \in Callers |-> 0]
    /\ timerDue = [c \in Callers |-> 0]
    /\ requests = [c \in Callers |-> 0]
    /\ attempts = [c \in Callers |-> <<>>]
    /\ delays = [c \in Callers |-> <<>>]
    /\ waitTime = [c \in Callers |-> 0]
    /\ returned = [c \in Callers |-> Absent]
    /\ raised = [c \in Callers |-> Absent]
    /\ readLast = [c \in Callers |-> 0]
    /\ prevRequestTime = 0
    /\ dispatches = 0
    /\ requestStarts = <<>>

\* No dashboard call made yet; the Dashboard page starts with loading set.
DashboardInit ==
    /\ statsCall = NoCall
    /\ historyCall = NoCall
    /\ dashboard = [awaiting |-> FALSE, loading |-> TRUE, stats |-> Absent,
                    recentTransactions |-> <<>>]

\* The FraudAnalyzer as mounted: the empty form, no result, nothing in flight.
AnalyzerInit ==
    /\ analyzer = [formData |-> INITIAL_FORM_DATA, result |-> Absent,
                   loading |-> FALSE, analysisHistory |-> <<>>,
                   rateLimitWarning |-> FALSE, alert |-> Absent, calls |-> {},
                   download |-> Absent]
    /\ analyzerHist = [returnedLog |-> <<>>, resultInput |-> Absent,
                       raisedCount |-> 0, analyses |-> 0, exportedInput |-> Absent]

Init ==
    /\ GovernorInit
    /\ DashboardInit
    /\ AnalyzerInit
    /\ probe = NoProbe

\* One caller, calls never overlapping, on a fine clock.
Next ==
    \/ \E c \in SeqCallers, data \in TimingTx : CheckFraudStart(c, data)
    \/ \E c \in SeqCallers : GovernorResume(c)
    \/ \E c \in SeqCallers, o \in TimingOutcomes, rnd \in TimingDraws :
            AttemptSettles(c, o, rnd)
    \/ \E c \in SeqCallers : BackoffResume(c)
    \/ Tick(TimeStep, MaxTime)

Spec == Init /\ [][Next]_vars

\* One caller, calls never overlapping, every outcome the network can deliver,
\* on a coarse clock.
NextOutcome ==
    \/ \E c \in SeqCallers, data \in OutcomeTx : CheckFraudStart(c, data)
    \/ \E c \in SeqCallers : GovernorResume(c)
    \/ \E c \in SeqCallers, o \in OutcomeOutcomes, rnd \in OutcomeDraws :
            AttemptSettles(c, o, rnd)
    \/ \E c \in SeqCallers : BackoffResume(c)
    \/ Tick(CoarseStep, MaxTimeCoarse)

SpecOutcome == Init /\ [][NextOutcome]_vars

\* The pure helpers, evaluated on their own.
TransactionTypes == {"TRANSFER", "CASH_OUT", "PAYMENT", "CASH_IN", "DEBIT"}

PureTx ==
    {Tx(st, ty, am, ob, nb) :
        st \in {0, EXPL_STEP_ABOVE, EXPL_STEP_ABOVE + 1},
        ty \in TransactionTypes,
        am \in {0, EXPL_AMOUNT_ABOVE, EXPL_AMOUNT_ABOVE + 1},
        ob \in {0, 100},
        nb \in {0, 100}}

Probabilities == 0..MaxProbability

\* The inputs of one evaluation are drawn at the start.
InitPure ==
    /\ GovernorInit
    /\ DashboardInit
    /\ AnalyzerInit
    /\ \E data \in PureTx, probability \in Probabilities :
            probe = [fn |-> "none", data |-> Some(data), probability |-> probability,
                     out |-> <<>>]

EvalRiskLevel ==
    /\ probe.fn = "none"
    /\ probe' = [probe EXCEPT !.fn = "getRiskLevel",
                              !.out = getRiskLevel(probe.probability)]
    /\ UNCHANGED <<clock, lastRequestTime, callVars, histVars, dashVars, anVars>>

EvalExplanation ==
    /\ probe.fn = "none"
    /\ probe' = [probe EXCEPT !.fn = "generateExplanation",
                              !.out = generateExplanation(probe.data[1], probe.probability)]
    /\ UNCHANGED <<clock, lastRequestTime, callVars, histVars, dashVars, anVars>>

NextPure ==
    \/ EvalRiskLevel
    \/ EvalExplanation

SpecPure == InitPure /\ [][NextPure]_vars

\* The statistics and history calls on their own, each called again and again
\* with every limit and every outcome of its request.
NextStats ==
    \/ GetModelStatsStart
    \/ \E limit \in HistoryLimits : GetTransactionHistoryStart(limit)
    \/ \E o \in StatsOutcomes : StatsSettles(o)
    \/ \E o \in HistoryOutcomes, rnds \in DrawSequences(historyCall.limit) :
            HistorySettles(o, rnds)
    \/ Tick(CoarseStep, MaxTimeCoarse)

SpecStats == Init /\ [][NextStats]_vars

\* Two callers whose checkFraud calls may overlap, on the fine clock.
NextRace ==
    \/ \E c \in Callers, data \in TimingTx : CheckFraudStart(c, data)
    \/ \E c \in Callers : GovernorResume(c)
    \/ \E c \in Callers, o \in RaceOutcomes, rnd \in TimingDraws :
            AttemptSettles(c, o, rnd)
    \/ \E c \in Callers : BackoffResume(c)
    \/ Tick(TimeStep, MaxTimeRace)

SpecRace == Init /\ [][NextRace]_vars

\* One checkFraud caller together with the Dashboard page and direct calls of
\* getModelStats and getTransactionHistory, on the fine clock.
NextFrame ==
    \/ \E c \in SeqCallers, data \in TimingTx : CheckFraudStart(c, data)
    \/ \E c \in SeqCallers : GovernorResume(c)
    \/ \E c \in SeqCallers, o \in RaceOutcomes, rnd \in TimingDraws :
            AttemptSettles(c, o, rnd)
    \/ \E c \in SeqCallers : BackoffResume(c)
    \/ DashboardFetchData
    \/ GetModelStatsStart
    \/ \E limit \in FrameLimits : GetTransactionHistoryStart(limit)
    \/ \E o \in FrameStatsOutcomes : StatsSettles(o)
    \/ \E o \in FrameHistoryOutcomes, rnds \in FrameDrawSequences(historyCall.limit) :
            HistorySettles(o, rnds)
    \/ Tick(TimeStep, MaxTimeFrame)

SpecFrame == Init /\ [][NextFrame]_vars

\* One caller, with calls starting before the horizon and running on past it.
NextLive ==
    \/ \E c \in SeqCallers, data \in TimingTx :
            clock < MaxTimeLive /\ CheckFraudStart(c, data)
    \/ \E c \in SeqCallers : GovernorResume(c)
    \/ \E c \in SeqCallers, o \in TimingOutcomes, rnd \in TimingDraws :
            AttemptSettles(c, o, rnd)
    \/ \E c \in SeqCallers : BackoffResume(c)
    \/ Tick(TimeStep, MaxTimeLive)
    \/ TimerTick(TimeStep, MaxTimeLive)

\* The event loop: time passes, and a timer that is due runs its callback.
TimersFair ==
    /\ WF_vars(Tick(TimeStep, MaxTimeLive))
    /\ WF_vars(TimerTick(TimeStep, MaxTimeLive))
    /\ \A c \in SeqCallers : WF_vars(GovernorResume(c))
    /\ \A c \in SeqCallers : WF_vars(BackoffResume(c))

\* The server is free never to answer: fetch is called without a signal or a
\* timeout, so nothing but the network settles a pending request.
SpecSilent == Init /\ [][NextLive]_vars /\ TimersFair

\* Every request is eventually answered or fails.
SpecAnswered ==
    /\ Init /\ [][NextLive]_vars
    /\ TimersFair
    /\ \A c \in SeqCallers :
          WF_vars(\E o \in TimingOutcomes, rnd \in TimingDraws : AttemptSettles(c, o, rnd))

\* The FraudAnalyzer on its own: the button clicked again and again, every
\* class of outcome, on the coarse clock.
NextAnalyzer ==
    \/ analyzerHist.analyses < MaxAnalyses /\ HandleAnalyze
    \/ \E c \in Callers : GovernorResume(c)
    \/ \E c \in Callers, o \in AnalyzerOutcomes, rnd \in TimingDraws :
            AttemptSettles(c, o, rnd)
    \/ \E c \in Callers : BackoffResume(c)
    \/ Tick(CoarseStep, StartTime + AnalyzerTicks * CoarseStep)

SpecAnalyzer == Init /\ [][NextAnalyzer]_vars

\* The FraudAnalyzer with its form edited and its results exported.
NextExport ==
    \/ \E value \in TypeEdits : HandleInputChange("type", value)
    \/ \E field \in NumberFields, value \in NumberEdits : HandleInputChange(field, value)
    \/ analyzerHist.analyses < MaxExportAnalyses /\ HandleAnalyze
    \/ \E c \in Callers : GovernorResume(c)
    \/ \E c \in Callers, o \in RaceOutcomes, rnd \in TimingDraws :
            AttemptSettles(c, o, rnd)
    \/ \E c \in Callers : BackoffResume(c)
    \/ ExportResults
    \/ Tick(CoarseStep, StartTime + ExportTicks * CoarseStep)

SpecExport == Init /\ [][NextExport]_vars

\* The chart aggregates, evaluated on their own: the transaction list is drawn
\* at the start.
InitCharts ==
    /\ GovernorInit
    /\ DashboardInit
    /\ AnalyzerInit
    /\ \E transactions \in MockHistories \cup UpstreamHistories :
            probe = [fn |-> "none", data |-> Some(transactions), probability |-> 0,
                     out |-> <<>>]

EvalChart(name, out) ==
    /\ probe.fn = "none"
    /\ probe' = [probe EXCEPT !.fn = name, !.out = out]
    /\ UNCHANGED <<clock, lastRequestTime, callVars, histVars, dashVars, anVars>>

NextCharts ==
    \/ EvalChart("processDailyTrends", processDailyTrends(probe.data[1]))
    \/ EvalChart("processTransactionTypes", processTransactionTypes(probe.data[1]))
    \/ EvalChart("processRiskLevels", processRiskLevels(probe.data[1]))
    \/ EvalChart("processAmountDistribution", processAmountDistribution(probe.data[1]))

SpecCharts == InitCharts /\ [][NextCharts]_vars

----------------------------------------------------------------------------
(* Properties *)

\* String.prototype.endsWith on a tokenised string
EndsWith(str, suffix) == Len(str) >= 1 /\ str[Len(str)] = suffix

\* The settled attempts of caller c that failed (fn threw).
AllFailed(c) == \A k \in 1..Len(attempts[c]) : fn(attempts[c][k]).threw

\* Every settled attempt of caller c was a response with this status.
AllStatus(c, status) ==
    \A k \in 1..Len(attempts[c]) :
        attempts[c][k].kind = "response" /\ attempts[c][k].status = status

\* C1: for one caller whose calls do not overlap, two consecutive values
\* recorded in lastRequestTime are at least 2000 ms apart, and a call that
\* starts sooner waits exactly the remaining time before it records its own.
C1_DispatchSpacing ==
    /\ dispatches >= 2 => lastRequestTime - prevRequestTime >= 2000
    /\ \A c \in SeqCallers :
          pc[c] = "rateWait" =>
              /\ waitTime[c] > 0
              /\ timerDue[c] = lastRequestTime + 2000
              /\ timerDue[c] - waitTime[c] < lastRequestTime + 2000

\* C1 witness: a second call started 500 ms after the previous dispatch, waited
\* 1500 ms and has recorded its own dispatch.
C1_Witness ==
    /\ dispatches = 2
    /\ pc[1] = "fetching"
    /\ waitTime[1] = 1500
    /\ lastRequestTime - prevRequestTime >= 2000

\* C2 (as claimed): any two consecutive fetch calls to the scoring endpoint,
\* retries included and across calls, start at least 2000 ms apart.
C2_RequestSpacing ==
    Len(requestStarts) = 2 => requestStarts[2] - requestStarts[1] >= 2000

\* C3: one call issues at most 3 fetch calls, one per attempt; every failed
\* attempt, of whatever kind, advances the attempt index by exactly one; and no
\* fetch follows an attempt that succeeded.
C3_AtMostThreeRequests ==
    \A c \in SeqCallers :
        /\ requests[c] <= 3
        /\ requests[c] = Len(attempts[c]) + (IF pc[c] = "fetching" THEN 1 ELSE 0)
        /\ \A k \in 1..(Len(attempts[c]) - 1) : fn(attempts[c][k]).threw
        /\ pc[c] = "fetching" => AllFailed(c) /\ attempt[c] = Len(attempts[c])
        /\ pc[c] = "backoff" => AllFailed(c) /\ attempt[c] = Len(attempts[c]) - 1
        /\ (Len(attempts[c]) >= 1 /\ ~AllFailed(c)) => pc[c] = "returned"

\* C3 witness: three attempts failed in three different ways (transport
\* exception, status 500, unparsable body) and the call raised after 3 requests.
C3_Witness ==
    /\ pc[1] = "raised"
    /\ requests[1] = 3
    /\ Len(attempts[1]) = 3
    /\ attempts[1][1].kind = "reject"
    /\ attempts[1][2].status = 500
    /\ attempts[1][3].status = 200 /\ ~attempts[1][3].parses

C4_ExpectedDelay(i, rateLimited) ==
    IF rateLimited THEN 1000 * (2 ^ (i + 1)) ELSE 1000 * (2 ^ i)

C5_RateLimitDegrades ==
    \A c \in SeqCallers :
        (Len(attempts[c]) = 3 /\ AllStatus(c, 429)) =>
            /\ pc[c] = "returned"
            /\ raised[c] = Absent
            /\ returned[c] # Absent
            /\ EndsWith(returned[c][1].modelVersion, "-mock")
            /\ returned[c][1].confidence = 85
            /\ returned[c][1].fraudProbability >= 0
            /\ returned[c][1].fraudProbability < 80
            /\ returned[c][1].explanation[1] = RATE_LIMIT_WARNING

\* C5 witness: three 429 answers, and a mock result returned.
C5_Witness ==
    /\ Len(attempts[1]) = 3
    /\ AllStatus(1, 429)
    /\ pc[1] = "returned"
    /\ returned[1][1].fraudProbability = 79

\* C6 (as claimed): when all 3 attempts are answered with status 500 the call
\* raises and returns no result.
C6_ServerErrorsRaise ==
    \A c \in SeqCallers :
        (Len(attempts[c]) = 3 /\ AllStatus(c, 500)) =>
            pc[c] = "raised" /\ returned[c] = Absent

C8_LastFailureDecides ==
    \A c \in SeqCallers :
        (Len(attempts[c]) = 3 /\ AllFailed(c)) =>
            IF attempts[c][3].kind = "response" /\ attempts[c][3].status = 429
            THEN pc[c] = "returned" /\ EndsWith(returned[c][1].modelVersion, "-mock")
            ELSE pc[c] = "raised" /\ returned[c] = Absent

\* C9: getRiskLevel(p) is one of the four levels, LOW exactly when p < 0.25,
\* MEDIUM when 0.25 <= p < 0.50, HIGH when 0.50 <= p < 0.80, CRITICAL when
\* p >= 0.80.
C9_RiskBands ==
    probe.fn = "getRiskLevel" =>
        /\ probe.out \in {"LOW", "MEDIUM", "HIGH", "CRITICAL"}
        /\ (probe.out = "LOW") <=> (probe.probability < 25)
        /\ (probe.out = "MEDIUM") <=> (probe.probability >= 25 /\ probe.probability < 50)
        /\ (probe.out = "HIGH") <=> (probe.probability >= 50 /\ probe.probability < 80)
        /\ (probe.out = "CRITICAL") <=> (probe.probability >= 80)

\* C9 witness: the boundary value 0.80 is CRITICAL.
C9_Witness ==
    /\ probe.fn = "getRiskLevel"
    /\ probe.probability = 80
    /\ probe.out = "CRITICAL"

C10_Rule(k, data, probability) ==
    CASE k = 1 -> probability > 70
      [] k = 2 -> data.amount > 10000
      [] k = 3 -> data.type \in {"CASH_OUT", "TRANSFER"}
      [] k = 4 -> data.oldbalanceOrg = 0 /\ data.newbalanceOrig = 0
      [] k = 5 -> data.step > 500

C10_Marker(k) ==
    CASE k = 1 -> EXPL_HIGH_PROBABILITY
      [] k = 2 -> EXPL_LARGE_AMOUNT
      [] k = 3 -> EXPL_RISKY_TYPE
      [] k = 4 -> EXPL_BALANCE_PATTERN
      [] k = 5 -> EXPL_RISKY_TIME

\* C10: generateExplanation(data, p) is determined by its arguments: a
\* non-empty list holding the marker of rule k exactly when rule k fires, the
\* markers in rule order, and the single "appears normal" marker exactly when
\* no rule fires.
C10_ExplanationRules ==
    probe.fn = "generateExplanation" =>
        LET out == probe.out
            fired == {k \in 1..5 : C10_Rule(k, probe.data[1], probe.probability)}
        IN  /\ Len(out) >= 1
            /\ \A k \in 1..5 : (\E j \in 1..Len(out) : out[j] = C10_Marker(k)) <=> k \in fired
            /\ \A j1 \in 1..Len(out), j2 \in 1..Len(out) :
                    j1 < j2 => \E k1 \in 1..5, k2 \in 1..5 :
                                  k1 < k2 /\ out[j1] = C10_Marker(k1) /\ out[j2] = C10_Marker(k2)
            /\ (\E j \in 1..Len(out) : out[j] = EXPL_NORMAL) <=> fired = {}
            /\ fired = {} => out = <<EXPL_NORMAL>>
            /\ Len(out) = IF fired = {} THEN 1 ELSE Cardinality(fired)

\* C10 witness: all five rules fire and the list holds the five markers in order.
C10_Witness ==
    /\ probe.fn = "generateExplanation"
    /\ probe.out = <<EXPL_HIGH_PROBABILITY, EXPL_LARGE_AMOUNT, EXPL_RISKY_TYPE,
                      EXPL_BALANCE_PATTERN, EXPL_RISKY_TIME>>

\* The settled call of caller c returned a result built from a parsed response.
ReturnedReal(c) ==
    pc[c] = "returned" /\ Len(attempts[c]) >= 1 /\ ~AllFailed(c)

\* The settled call of caller c returned the result synthesized after exhaustion.
ReturnedMock(c) ==
    pc[c] = "returned" /\ Len(attempts[c]) >= 1 /\ AllFailed(c)

\* C11 (as claimed): on the degraded path the returned explanation is the
\* rate-limit warning followed by the whole list generateExplanation yields for
\* the same transaction and the mock probability, every entry kept, in order.
C11_FullExplanation ==
    \A c \in SeqCallers :
        ReturnedMock(c) =>
            returned[c][1].explanation =
                <<RATE_LIMIT_WARNING>>
                \o generateExplanation(transactionData[c][1],
                                       returned[c][1].fraudProbability)

\* C12 (as claimed): on the successful path, a response that carries flagged
\* (true or false) has it returned as it is; only without the field is flagged
\* derived as probability > 0.5.
C12_FlaggedFromResponse ==
    \A c \in SeqCallers :
        ReturnedReal(c) =>
            LET body == attempts[c][Len(attempts[c])].body
                res == returned[c][1]
            IN  IF body.flagged # Absent
                THEN res.flagged = body.flagged[1]
                ELSE res.flagged = (res.fraudProbability > 50)

\* C13 (as claimed): on the successful path the returned fraudProbability is
\* the camel-case field when present (0 included), else the snake-case field
\* when present, else 0.
C13_ProbabilityFromResponse ==
    \A c \in SeqCallers :
        ReturnedReal(c) =>
            LET body == attempts[c][Len(attempts[c])].body
            IN  returned[c][1].fraudProbability =
                    IF body.fraudProbability # Absent THEN body.fraudProbability[1]
                    ELSE IF body.fraud_probability # Absent
                    THEN body.fraud_probability[1]
                    ELSE 0

\* C14 (as claimed): a returned result carries the mock marker in modelVersion
\* exactly when it was synthesized after rate-limit exhaustion; one built from an
\* upstream response never carries it, whatever version the upstream sent.
C14_MarkerIffSynthesized ==
    \A c \in SeqCallers :
        pc[c] = "returned" =>
            (HasMockMarker(returned[c][1].modelVersion) <=> ReturnedMock(c))

\* C15 (as claimed): only an answer with status 429 gets the escalated backoff
\* and the mock fallback; a failure with any other status, and a transport
\* exception, gets the baseline backoff and is raised on exhaustion, whatever
\* its status text or message holds.
C15_Only429Escalates ==
    \A c \in SeqCallers :
        /\ \A k \in 1..Len(delays[c]) :
              LET failed == attempts[c][k]
              IN  delays[c][k] =
                      IF failed.kind = "response" /\ failed.status = 429
                      THEN 1000 * (2 ^ k)
                      ELSE 1000 * (2 ^ (k - 1))
        /\ ReturnedMock(c) =>
              /\ attempts[c][Len(attempts[c])].kind = "response"
              /\ attempts[c][Len(attempts[c])].status = 429

\* The request of a settled statistics or history call failed: fetch threw, or
\* the response's status is not a success.
RequestFailed(call) ==
    \/ call.outcome[1].kind = "reject"
    \/ call.outcome[1].status < 200
    \/ call.outcome[1].status > 299

\* C16: getModelStats never raises; when its request throws, is answered with a
\* status that is not a success, or with a body that does not parse, it has
\* issued its one request and no other and returns the fallback record: accuracy
\* 0.94, precision 0.89, recall 0.92, f1Score 0.905, totalTransactions 15847,
\* fraudDetected 1247, falsePositives 89.
C16_StatsNeverRaise ==
    /\ statsCall.pc # "raised"
    /\ statsCall.raised = Absent
    /\ statsCall.pc = "returned" =>
          LET res == statsCall.returned[1]
          IN  (RequestFailed(statsCall) \/ ~statsCall.outcome[1].parses) =>
                  /\ statsCall.requests = 1
                  /\ res.accuracy = 940
                  /\ res.precision = 890
                  /\ res.recall = 920
                  /\ res.f1Score = 905
                  /\ res.totalTransactions = 15847
                  /\ res.fraudDetected = 1247
                  /\ res.falsePositives = 89

\* C16 witness: a 200 answer whose body does not parse, and the fallback returned.
C16_Witness ==
    /\ statsCall.pc = "returned"
    /\ statsCall.outcome[1].status = 200
    /\ ~statsCall.outcome[1].parses
    /\ statsCall.returned[1].accuracy = 940

C17_Band(p) ==
    IF p < 25 THEN "LOW" ELSE IF p < 50 THEN "MEDIUM" ELSE IF p < 80 THEN "HIGH"
    ELSE "CRITICAL"

\* C17: getTransactionHistory(limit) never raises; when its request throws or
\* is answered with a status that is not a success it returns exactly limit
\* records, ordered by timestamp from the latest to the earliest, each with
\* flagged = (fraudProbability > 0.5) and the riskLevel of its fraudProbability.
C17_HistoryFallback ==
    /\ historyCall.pc # "raised"
    /\ historyCall.raised = Absent
    /\ (historyCall.pc = "returned" /\ RequestFailed(historyCall)) =>
          LET res == historyCall.returned[1]
          IN  /\ Len(res) = historyCall.limit
              /\ \A k \in 1..(Len(res) - 1) :
                    DateParse(res[k].timestamp) >= DateParse(res[k + 1].timestamp)
              /\ \A k \in 1..Len(res) :
                    /\ res[k].flagged = (res[k].fraudProbability > 50)
                    /\ res[k].riskLevel = C17_Band(res[k].fraudProbability)

\* C17 witness: the dashboard's limit of 10 after a transport failure: 10
\* records, the first later than the last, the first flagged and the last not.
C17_Witness ==
    /\ historyCall.pc = "returned"
    /\ historyCall.limit = 10
    /\ historyCall.outcome[1].kind = "reject"
    /\ Len(historyCall.returned[1]) = 10
    /\ DateParse(historyCall.returned[1][1].timestamp)
          > DateParse(historyCall.returned[1][10].timestamp)
    /\ historyCall.returned[1][1].flagged
    /\ ~historyCall.returned[1][10].flagged

\* C18 (as claimed): lastRequestTime is written at every fetch of the scoring
\* request, first attempts and retries alike, whatever the attempt's outcome, so
\* it always holds the start time of the latest fetch; and it never decreases.
C18_UpdatedEveryAttempt ==
    /\ Len(requestStarts) >= 1 =>
          lastRequestTime = requestStarts[Len(requestStarts)]
    /\ lastRequestTime >= prevRequestTime

\* C19: when checkFraud calls overlap, each call still records its dispatch at
\* least 2000 ms after the lastRequestTime it read, and a dispatch comes less
\* than 2000 ms after the previous one only from a call that waited on a
\* timestamp another call has overwritten since; the witness is the interleaving
\* claimed, where two calls read the same lastRequestTime, wait the same
\* remaining time and dispatch less than 2000 ms apart.
C19_StaleReadRace ==
    [][\A c \in Callers :
        (pc[c] \in Settled \cup {"rateWait"} /\ pc'[c] = "fetching") =>
            /\ lastRequestTime' = clock
            /\ clock - readLast'[c] >= 2000
            /\ clock - lastRequestTime < 2000 =>
                  /\ pc[c] = "rateWait"
                  /\ readLast[c] < lastRequestTime
                  /\ \E d \in Callers \ {c} : pc[d] # "idle"
      ]_vars

\* C19 witness: both callers read the same lastRequestTime, waited the same
\* time, and have recorded their dispatches less than 2000 ms apart.
C19_Witness ==
    /\ pc[1] = "fetching" /\ pc[2] = "fetching"
    /\ requests[1] = 1 /\ requests[2] = 1
    /\ readLast[1] = readLast[2]
    /\ waitTime[1] = waitTime[2]
    /\ waitTime[1] > 0
    /\ dispatches = 2
    /\ lastRequestTime - prevRequestTime < 2000

\* C20: a step of getModelStats or getTransactionHistory (the Dashboard's
\* fetchData among them) changes neither lastRequestTime nor anything else of a
\* checkFraud call; such a call issues its request in the step that starts it,
\* however recent the last scoring dispatch; and whether a checkFraud call waits,
\* and how long, is set by the clock and the last scoring dispatch alone.
C20_NoGovernorCoupling ==
    [][/\ (statsCall' # statsCall \/ historyCall' # historyCall) =>
              UNCHANGED <<lastRequestTime, callVars, histVars>>
       /\ (statsCall.pc \in Settled /\ statsCall' # statsCall) =>
              statsCall'.pc = "fetching" /\ statsCall'.requests = 1
       /\ (historyCall.pc \in Settled /\ historyCall' # historyCall) =>
              historyCall'.pc = "fetching" /\ historyCall'.requests = 1
       /\ Len(requestStarts) = 0 => lastRequestTime = 0
       /\ Len(requestStarts) >= 1 => lastRequestTime <= requestStarts[Len(requestStarts)]
       /\ \A c \in SeqCallers :
              (pc[c] \in Settled /\ pc'[c] # pc[c]) =>
                  IF clock - lastRequestTime < 2000
                  THEN /\ pc'[c] = "rateWait"
                       /\ timerDue'[c] = lastRequestTime + 2000
                  ELSE pc'[c] = "fetching" /\ waitTime'[c] = 0
      ]_vars

\* C20 witness: the Dashboard's two calls are under way while a checkFraud call
\* waits out the minimum interval since the last scoring dispatch.
C20_Witness ==
    /\ dashboard.awaiting
    /\ statsCall.pc = "fetching"
    /\ historyCall.pc = "fetching"
    /\ pc[1] = "rateWait"
    /\ clock - lastRequestTime < 2000
    /\ dispatches = 1

\* C21 (as claimed): a scoring request that gets no response is abandoned after
\* a timeout, so a call that is waiting for the server eventually returns or
\* raises even when the server never answers.
C21_EventuallySettles ==
    \A c \in SeqCallers :
        (pc[c] = "fetching") ~> (pc[c] \in {"returned", "raised"})

\* C22: when every request eventually completes, every checkFraud call
\* eventually returns or raises; it waits before its dispatch at most once,
\* makes at most 3 attempts and at most 2 backoff waits, and leaves its course
\* only by returning or raising.
C22_Terminates ==
    /\ [](\A c \in SeqCallers :
             /\ requests[c] <= 3
             /\ Len(attempts[c]) <= 3
             /\ Len(delays[c]) <= 2)
    /\ [][\A c \in SeqCallers :
             /\ pc'[c] = "rateWait" => pc[c] \in Settled \cup {"rateWait"}
             /\ pc[c] = "rateWait" => pc'[c] \in {"rateWait", "fetching"}
             /\ pc[c] = "fetching" =>
                   pc'[c] \in {"fetching", "backoff", "returned", "raised"}
             /\ pc[c] = "backoff" => pc'[c] \in {"backoff", "fetching", "raised"}
             /\ (pc[c] \notin Settled /\ pc'[c] \notin Settled) =>
                   /\ Len(attempts'[c]) >= Len(attempts[c])
                   /\ transactionData'[c] = transactionData[c]
         ]_vars
    /\ \A c \in SeqCallers :
          (pc[c] \notin Settled) ~> (pc[c] \in {"returned", "raised"})

\* C22 witness: a call that waited before its dispatch, made 3 attempts and 2
\* backoff waits, and raised.
C22_Witness ==
    /\ pc[1] = "raised"
    /\ waitTime[1] > 0
    /\ Len(attempts[1]) = 3
    /\ Len(delays[1]) = 2

\* C23 (as claimed): whatever path getTransactionHistory takes, the upstream
\* body returned as it is among them, its records come latest first.
C23_AlwaysLatestFirst ==
    historyCall.pc = "returned" =>
        LET res == historyCall.returned[1]
        IN  \A k \in 1..(Len(res) - 1) :
                DateParse(res[k].timestamp) >= DateParse(res[k + 1].timestamp)

\* C24: in every result checkFraud returns, from a response or synthesized, the
\* riskLevel is the band of that result's own fraudProbability (LOW below 0.25,
\* MEDIUM below 0.50, HIGH below 0.80, else CRITICAL), and a synthesized result
\* is never CRITICAL.
C24_RiskMatchesProbability ==
    \A c \in SeqCallers :
        pc[c] = "returned" =>
            /\ returned[c][1].riskLevel = C17_Band(returned[c][1].fraudProbability)
            /\ ReturnedMock(c) =>
                  /\ returned[c][1].fraudProbability < 80
                  /\ returned[c][1].riskLevel # "CRITICAL"

\* C24 witness: a mock result at the top of the mock range, which is HIGH.
C24_Witness ==
    /\ ReturnedMock(1)
    /\ returned[1][1].fraudProbability = 79
    /\ returned[1][1].riskLevel = "HIGH"

\* C25: checkFraud never raises an error whose message contains '429' or
\* 'Too Many Requests' (such a terminal failure becomes a mock result), so
\* the FraudAnalyzer never shows the rate-limit alert, and rateLimitWarning is
\* set only while the displayed result's modelVersion contains 'mock'.
C25_RateLimitAbsorbed ==
    /\ \A c \in Callers :
          raised[c] # Absent =>
              /\ ~Includes(raised[c][1], "429")
              /\ ~Includes(raised[c][1], "Too Many Requests")
    /\ analyzer.alert # Some(RATE_LIMIT_ALERT)
    /\ analyzer.rateLimitWarning =>
          /\ analyzer.result # Absent
          /\ Includes(analyzer.result[1].modelVersion, "-mock")

\* C25 witness: an earlier analysis raised and showed the generic alert, and
\* the last one ended on a 500 response reading 'Too Many Requests', returned a
\* mock result and set the warning.
C25_Witness ==
    /\ analyzer.rateLimitWarning
    /\ analyzer.alert = Some(FAILURE_ALERT)
    /\ pc[1] = "returned"
    /\ Len(attempts[1]) = 3
    /\ attempts[1][3].status = 500

\* C26: loading is set exactly while a checkFraud call of the FraudAnalyzer is
\* in flight, whatever the outcome of the calls before, and at most one such
\* call is in flight at any time.
C26_LoadingTracksCall ==
    /\ analyzer.loading <=> analyzer.calls # {}
    /\ Cardinality(analyzer.calls) <= 1
    /\ \A c \in Callers : c \in analyzer.calls <=> pc[c] \notin Settled

\* C26 witness: after a real result, a mock result and a raised error, a new
\* analysis is between two attempts with loading set.
C26_Witness ==
    /\ analyzer.loading
    /\ pc[1] = "backoff"
    /\ analyzerHist.raisedCount >= 1
    /\ \E k \in 1..Len(analyzerHist.returnedLog) :
          HasMockMarker(analyzerHist.returnedLog[k].modelVersion)
    /\ \E k \in 1..Len(analyzerHist.returnedLog) :
          ~HasMockMarker(analyzerHist.returnedLog[k].modelVersion)

\* C27: analysisHistory holds at most 5 results and is exactly the up-to-5 most
\* recent results checkFraud returned, newest first, the displayed result
\* being the newest; an analysis that raises changes neither.
C27_HistoryIsRecentFive ==
    /\ [](/\ Len(analyzer.analysisHistory) <= 5
          /\ analyzer.analysisHistory =
                SubSeq(analyzerHist.returnedLog, 1,
                       Min(5, Len(analyzerHist.returnedLog)))
          /\ analyzer.result = IF analyzerHist.returnedLog = <<>> THEN Absent
                               ELSE Some(analyzerHist.returnedLog[1]))
    /\ [][analyzerHist'.raisedCount # analyzerHist.raisedCount =>
              /\ analyzer'.analysisHistory = analyzer.analysisHistory
              /\ analyzer'.result = analyzer.result
         ]_vars

\* C27 witness: six analyses returned (the newest a real result, the one
\* before it a mock result) and one raised: the oldest result has left the
\* history.
C27_Witness ==
    /\ Len(analyzerHist.returnedLog) = 6
    /\ analyzerHist.raisedCount >= 1
    /\ Len(analyzer.analysisHistory) = 5
    /\ ~HasMockMarker(analyzerHist.returnedLog[1].modelVersion)
    /\ HasMockMarker(analyzerHist.returnedLog[2].modelVersion)
    /\ analyzer.analysisHistory[2] = analyzerHist.returnedLog[2]

\* C28: exportResults downloads nothing while no result exists, and the record
\* it downloads holds, next to the displayed analysis, the transaction that
\* was the input of the checkFraud call which returned that analysis.
C28_ExportPairsInput ==
    /\ analyzer.result = Absent => analyzer.download = Absent
    /\ analyzer.download # Absent =>
          analyzer.download[1].exportData.transaction = analyzerHist.exportedInput[1]

\* The transaction list is ordered most recent first.
LatestFirst(transactions) ==
    \A i, j \in 1..Len(transactions) :
        i < j => DateParse(transactions[i].timestamp) >= DateParse(transactions[j].timestamp)

\* The calendar dates a transaction list covers.
DatesOf(transactions) == {LocaleDate(transactions[k]) : k \in 1..Len(transactions)}

\* C29: processDailyTrends returns at most 7 day buckets, and for an input
\* ordered most recent first that covers more than 7 calendar dates the
\* buckets are those of the 7 most recent dates.
C29_RecentSevenDays ==
    probe.fn = "processDailyTrends" =>
        LET transactions == probe.data[1]
            dates == DatesOf(transactions)
            recent == {d \in dates : Cardinality({e \in dates : e > d}) < 7}
        IN  /\ Len(probe.out) <= 7
            /\ (LatestFirst(transactions) /\ Cardinality(dates) > 7) =>
                  {probe.out[k].date : k \in 1..Len(probe.out)} = recent

RECURSIVE SumField(_, _)
SumField(arr, field) ==
    IF arr = <<>> THEN 0 ELSE Head(arr)[field] + SumField(Tail(arr), field)

\* Every record has one of the four risk levels and a non-negative amount.
ValidForCharts(transactions) ==
    \A k \in 1..Len(transactions) :
        /\ transactions[k].riskLevel \in {"LOW", "MEDIUM", "HIGH", "CRITICAL"}
        /\ transactions[k].amount >= 0

\* C30: on a list of records with a risk level among the four bands and a
\* non-negative amount, every daily bucket has total = fraud + legitimate, the
\* four risk-level values and the per-type totals each sum to the number of
\* transactions, every transaction is counted in exactly the one amount range
\* that holds it, and a range with count 0 has fraudRate 0.
C30_CountsConserved ==
    (probe.fn \notin {"idle", "none"} /\ ValidForCharts(probe.data[1])) =>
        LET transactions == probe.data[1]
            n == Len(transactions)
            out == probe.out
        IN  /\ probe.fn = "processDailyTrends" =>
                  \A k \in 1..Len(out) :
                      /\ out[k].total = out[k].fraud + out[k].legitimate
                      /\ out[k].total >= 1
            /\ probe.fn = "processRiskLevels" =>
                  /\ Len(out) = 4
                  /\ SumField(out, "value") = n
            /\ probe.fn = "processTransactionTypes" =>
                  SumField(out, "total") = n
            /\ probe.fn = "processAmountDistribution" =>
                  /\ SumField(out, "count") = n
                  /\ \A k \in 1..Len(out) :
                        /\ out[k].count =
                              Cardinality({i \in 1..n :
                                  /\ transactions[i].amount >= out[k].min
                                  /\ (out[k].max = Absent
                                        \/ transactions[i].amount < out[k].max[1])})
                        /\ out[k].count = 0 => out[k].fraudRate.num = 0

\* C30 witness: the amount distribution of a list with amounts of 0 and of
\* 1000, the lower ends of two ranges, in which one range stays empty.
C30_Witness ==
    /\ probe.fn = "processAmountDistribution"
    /\ \E i \in 1..Len(probe.data[1]) : probe.data[1][i].amount = 0
    /\ \E i \in 1..Len(probe.data[1]) : probe.data[1][i].amount = 1000
    /\ \E k \in 1..Len(probe.out) : probe.out[k].count = 0
    /\ \E k \in 1..Len(probe.out) : probe.out[k].count >= 2

====
